---- MODULE Spec2Model ----
(***************************************************************************)
(* Model of server.py: the multiplayer snake server.                       *)
(*                                                                         *)
(* GameState (players, food, occupied, tick, death_reasons), its           *)
(* operations add_player / remove_player / spawn_food / step, the          *)
(* ConnectionManager registry and the websocket_endpoint handler.          *)
(*                                                                         *)
(* asyncio runs one coroutine at a time and switches only at an await, so  *)
(* an action is the code between two suspension points.                    *)
(*                                                                         *)
(* The board is scaled down (server.py has WIDTH = 40, HEIGHT = 30,        *)
(* START_LENGTH = 3, FOOD_COUNT = 5) so that the torus, the spawn anchors  *)
(* and the food placements can be enumerated; the spawn margins are scaled *)
(* with it.  random.randint is a nondeterministic choice over its range.   *)
(***************************************************************************)
EXTENDS Integers, Sequences, FiniteSets, TLC

\* ---------------------------------------------------------------- sizes
\* server.py:24-28, scaled
WIDTH == 3
HEIGHT == 3
START_LENGTH == 2
FOOD_COUNT == 2

\* bounds of the exploration
MaxTick == 2
NumSockets == 2

\* server.py:128-129: spawn_x in START_LENGTH+2 .. WIDTH-START_LENGTH-3 and
\* spawn_y in 2 .. HEIGHT-3 on the 40x30 board; on the scaled board the margin
\* keeps what the margin is for: the spawned body does not wrap.
SpawnXs == (START_LENGTH - 1) .. (WIDTH - 1)
SpawnYs == 0 .. (HEIGHT - 1)

Xs == 0 .. (WIDTH - 1)
Ys == 0 .. (HEIGHT - 1)
Cells == Xs \X Ys

\* player identities (the {player_id} of the websocket path); a string is a
\* sequence of characters so that strip() and slicing can be computed
PlayerIds == { << "a" >>, << "b" >>, << "c" >> }
NoId == << >>
\* the websockets: each is one connection, from its accept to its handler's return
AllSockets == 1 .. Cardinality(PlayerIds)
Sockets == 1 .. NumSockets
NoSocket == 0

VARIABLES
    players,             \* GameState.players: player_id -> player dict
    porder,              \* insertion order of GameState.players (dict order)
    food,                \* GameState.food: list of cells
    occupied,            \* GameState.occupied: set of cells
    tick,                \* GameState.tick
    death_reasons,       \* GameState.death_reasons
    active_connections,  \* ConnectionManager.active_connections: player_id -> websocket
    conn,                \* per websocket: position of its websocket_endpoint coroutine
    running,             \* the coroutine that holds the event loop thread inside a handler
    hung,                \* the event loop thread is inside a loop that never ends
    loop,                \* game_loop: asleep, or inside broadcast() with its local variables
    fallback_used        \* history: add_player has taken the unchecked fallback spawn

gvars == <<players, porder, food, occupied, tick, death_reasons>>
vars == <<players, porder, food, occupied, tick, death_reasons,
          active_connections, conn, running, hung, loop, fallback_used>>

\* ------------------------------------------------------------ utilities
\* server.py:72-74
clamp_pos(x, y) == << x % WIDTH, y % HEIGHT >>

Range(s) == { s[i] : i \in 1 .. Len(s) }

\* list.remove(x): drops the first occurrence
RECURSIVE ListRemove(_, _)
ListRemove(s, x) ==
    IF s = << >> THEN << >>
    ELSE IF Head(s) = x THEN Tail(s)
    ELSE << Head(s) >> \o ListRemove(Tail(s), x)

\* del d[k]
DictDel(d, k) == [ j \in (DOMAIN d) \ {k} |-> d[j] ]
\* d[k] = v
DictSet(d, k, v) == [ j \in (DOMAIN d) \cup {k} |-> IF j = k THEN v ELSE d[j] ]
\* insertion order of a dict after d[k] = v: a new key goes last, an existing key keeps its place
OrderSet(o, k) == IF k \in Range(o) THEN o ELSE Append(o, k)
OrderDel(o, k) == SelectSeq(o, LAMBDA j : j # k)

\* server.py:76-92: the cells find_empty_position can return: any free cell when
\* there is one (by a random probe or by the exhaustive scan), else any cell
find_empty_position(occ) ==
    IF Cells \ occ # {} THEN Cells \ occ ELSE Cells

\* spawn_food with "if" for "while": at most one food is placed
spawn_food_once(fd, occ) ==
    IF Len(fd) >= FOOD_COUNT
    THEN { [food |-> fd, occupied |-> occ, done |-> TRUE] }
    ELSE LET accepted == { pos \in find_empty_position(occ) : pos \notin occ }
         IN IF accepted = {}
            THEN { [food |-> fd, occupied |-> occ, done |-> FALSE] }
            ELSE { [food |-> Append(fd, pos), occupied |-> occ \cup {pos}, done |-> TRUE] :
                     pos \in accepted }

\* server.py:104-114: the states in which spawn_food can be, either returned
\* (done) or looping for ever because every probe is rejected (not done)
RECURSIVE spawn_food(_, _)
spawn_food(fd, occ) ==
    IF Len(fd) >= FOOD_COUNT
    THEN { [food |-> fd, occupied |-> occ, done |-> TRUE] }
    ELSE LET accepted == { pos \in find_empty_position(occ) : pos \notin occ }
         IN IF accepted = {}
            THEN { [food |-> fd, occupied |-> occ, done |-> FALSE] }
            ELSE UNION { spawn_food(Append(fd, pos), occ \cup {pos}) : pos \in accepted }

\* ------------------------------------------------------------ add / remove
\* server.py:131-144 and 176-178: the body laid out leftwards from the anchor
SpawnBody(sx, sy) == [ i \in 1 .. START_LENGTH |-> << (sx - (i - 1)) % WIDTH, sy >> ]

\* server.py:155-167 and 186-198
NewPlayer(display_name, body, t) ==
    [ display_name |-> display_name,
      body |-> body,
      dir |-> << 1, 0 >>,
      pending_dir |-> << 1, 0 >>,
      alive |-> TRUE,
      score |-> 0,
      food_collected |-> 0,
      spawn_tick |-> t ]

\* server.py:126-146: the anchors whose whole body is free
ValidAnchors(occ) ==
    { a \in SpawnXs \X SpawnYs : Range(SpawnBody(a[1], a[2])) \cap occ = {} }

\* server.py:116-198: the outcomes of add_player on game state g.  A checked
\* spawn at any valid anchor; the unchecked fallback at any cell when no anchor
\* is valid, and also, when unlucky, when the 100 random attempts all fall on
\* anchors that are not valid although a valid one exists.
add_player(g, player_id, display_name, unlucky) ==
    LET place(body, fb) ==
            [ g EXCEPT !.occupied = g.occupied \cup Range(body),
                       !.players = DictSet(g.players, player_id,
                                           NewPlayer(display_name, body, g.tick)),
                       !.porder = OrderSet(g.porder, player_id),
                       !.fallback = fb ]
        checked == { place(SpawnBody(a[1], a[2]), g.fallback) : a \in ValidAnchors(g.occupied) }
        unchecked == IF \/ ValidAnchors(g.occupied) = {}
                        \/ unlucky /\ ValidAnchors(g.occupied) # SpawnXs \X SpawnYs
                     THEN { place(SpawnBody(c[1], c[2]), TRUE) : c \in Cells }
                     ELSE {}
    IN checked \cup unchecked

\* server.py:200-218
remove_player(g, player_id) ==
    IF player_id \notin DOMAIN g.players THEN g
    ELSE [ g EXCEPT !.occupied = g.occupied \ Range(g.players[player_id].body),
                    !.players = DictDel(g.players, player_id),
                    !.porder = OrderDel(g.porder, player_id),
                    !.death_reasons = DictDel(g.death_reasons, player_id) ]

\* the game state as one value, and back
Game == [ players |-> players, porder |-> porder, food |-> food, occupied |-> occupied,
          tick |-> tick, death_reasons |-> death_reasons, fallback |-> fallback_used ]

SetGame(g) ==
    /\ players' = g.players
    /\ porder' = g.porder
    /\ food' = g.food
    /\ occupied' = g.occupied
    /\ tick' = g.tick
    /\ death_reasons' = g.death_reasons
    /\ fallback_used' = g.fallback

\* ------------------------------------------------------------------ step
Neg(d) == << -d[1], -d[2] >>

AliveIds(pl) == { p \in DOMAIN pl : pl[p].alive }

\* server.py:231-237: the pending direction is taken unless it is a 180-degree turn
CommitDir(player) ==
    IF player.pending_dir # Neg(player.dir)
    THEN [ player EXCEPT !.dir = player.pending_dir ]
    ELSE player

\* server.py:239-243
NewHead(player) ==
    clamp_pos(player.body[1][1] + player.dir[1], player.body[1][2] + player.dir[2])

\* server.py:227-243: first pass, over the alive players
FirstPass(pl) == [ p \in DOMAIN pl |-> IF pl[p].alive THEN CommitDir(pl[p]) ELSE pl[p] ]

new_heads(pl) == [ p \in AliveIds(pl) |-> NewHead(pl[p]) ]

\* server.py:245-252
temp_occupied(pl, fd) ==
    UNION { Range(pl[p].body) : p \in AliveIds(pl) } \cup Range(fd)

\* server.py:263-270: the head is on food
EatFood(r, player_id, new_head) ==
    IF new_head \in Range(r.food)
    THEN [ r EXCEPT !.snakes_to_grow = @ \cup {player_id},
                    !.food = ListRemove(@, new_head),
                    !.players[player_id].food_collected = @ + 1,
                    !.temp_occupied = @ \ {new_head} ]
    ELSE r

\* head-to-head that handles a pair only: with more than one other head on the
\* cell nobody is marked
HeadToHeadPair(r, nh, player_id, new_head) ==
    LET others == { o \in DOMAIN nh : o # player_id /\ nh[o] = new_head }
        both == others \cup {player_id}
    IN IF Cardinality(others) # 1 THEN r
       ELSE [ r EXCEPT !.dead_snakes = @ \cup both,
                       !.death_reasons = [ j \in (DOMAIN @) \cup both |->
                                             IF j \in both THEN "head_collision" ELSE @[j] ] ]

\* server.py:272-281: head-to-head
HeadToHead(r, nh, player_id, new_head) ==
    LET others == { o \in DOMAIN nh : o # player_id /\ nh[o] = new_head }
        both == others \cup {player_id}
    IN IF others = {} THEN r
       ELSE [ r EXCEPT !.dead_snakes = @ \cup both,
                       !.death_reasons = [ j \in (DOMAIN @) \cup both |->
                                             IF j \in both THEN "head_collision" ELSE @[j] ] ]

\* server.py:283-296: collision with the positions occupied before the move
BodyCollision(r, player_id, new_head) ==
    LET body == r.players[player_id].body
        excluded_positions ==
            IF player_id \notin r.snakes_to_grow /\ body # << >>
            THEN { body[Len(body)] } ELSE {}
    IN IF /\ player_id \notin r.dead_snakes
          /\ new_head \in r.temp_occupied
          /\ new_head \notin excluded_positions
       THEN [ r EXCEPT !.dead_snakes = @ \cup {player_id},
                       !.death_reasons = DictSet(@, player_id,
                            IF new_head \in Range(body) THEN "self" ELSE "other") ]
       ELSE r

\* server.py:257-296: one iteration of the second pass
CheckPlayer(r, nh, player_id) ==
    BodyCollision(HeadToHead(EatFood(r, player_id, nh[player_id]), nh, player_id, nh[player_id]),
                  player_id, nh[player_id])

\* server.py:257-296: the second pass, in the order ord of the dict
RECURSIVE SecondPass(_, _, _, _)
SecondPass(r, nh, ord, i) ==
    IF i > Len(ord) THEN r
    ELSE SecondPass(IF ord[i] \in DOMAIN nh THEN CheckPlayer(r, nh, ord[i]) ELSE r,
                    nh, ord, i + 1)

\* a move that drops the tail of a growing snake too
MovePlayerTailDropped(player, new_head, grows) ==
    LET body == << new_head >> \o player.body
        moved == IF Len(body) > START_LENGTH THEN SubSeq(body, 1, Len(body) - 1) ELSE body
    IN IF grows
       THEN [ player EXCEPT !.body = moved, !.score = @ + 1 ]
       ELSE [ player EXCEPT !.body = moved ]

\* a move that grows the snake and leaves the score
MovePlayerScoreKept(player, new_head, grows) ==
    LET body == << new_head >> \o player.body
    IN IF grows
       THEN [ player EXCEPT !.body = body ]
       ELSE [ player EXCEPT !.body = IF Len(body) > START_LENGTH
                                     THEN SubSeq(body, 1, Len(body) - 1)
                                     ELSE body ]

\* a move in which a head on the own tail cell is added and the tail stays
MovePlayerTailKept(player, new_head, grows) ==
    LET body == << new_head >> \o player.body
    IN IF grows
       THEN [ player EXCEPT !.body = body, !.score = @ + 1 ]
       ELSE [ player EXCEPT !.body = IF Len(body) > START_LENGTH /\ new_head # body[Len(body)]
                                     THEN SubSeq(body, 1, Len(body) - 1)
                                     ELSE body ]

\* server.py:315-325: new head in front; the tail stays when the snake grows
MovePlayer(player, new_head, grows) ==
    LET body == << new_head >> \o player.body
    IN IF grows
       THEN [ player EXCEPT !.body = body, !.score = @ + 1 ]
       ELSE [ player EXCEPT !.body = IF Len(body) > START_LENGTH
                                     THEN SubSeq(body, 1, Len(body) - 1)
                                     ELSE body ]

\* server.py:305-329: third pass
ThirdPass(r, nh) ==
    [ p \in DOMAIN r.players |->
        IF ~ r.players[p].alive THEN r.players[p]
        ELSE IF p \in r.dead_snakes THEN [ r.players[p] EXCEPT !.alive = FALSE ]
        ELSE MovePlayer(r.players[p], nh[p], p \in r.snakes_to_grow) ]

\* server.py:220-339: step() up to the call of spawn_food, iterating the players
\* in the order ord
StepMoves(g, ord) ==
    LET pl1 == FirstPass(g.players)
        nh == new_heads(pl1)
        r == SecondPass([ players |-> pl1, food |-> g.food,
                          temp_occupied |-> temp_occupied(pl1, g.food),
                          snakes_to_grow |-> {}, dead_snakes |-> {},
                          death_reasons |-> g.death_reasons ],
                        nh, ord, 1)
        pl3 == ThirdPass(r, nh)
        moved == { p \in DOMAIN nh : p \notin r.dead_snakes }
        rebuilt == Range(r.food) \cup UNION { Range(pl3[p].body) : p \in moved }
        cleaned == rebuilt \ UNION { Range(pl3[p].body) : p \in r.dead_snakes }
    IN [ g EXCEPT !.players = pl3,
                  !.food = r.food,
                  !.occupied = cleaned,
                  !.death_reasons = r.death_reasons ]

\* server.py:220-343: the states step() can end in (done), or be stuck in (not done)
step(g) ==
    LET m == StepMoves(g, g.porder)
    IN { [ m EXCEPT !.food = o.food, !.occupied = o.occupied,
                    !.tick = IF o.done THEN m.tick + 1 ELSE m.tick,
                    !.fallback = m.fallback ] : o \in spawn_food(m.food, m.occupied) }

\* ------------------------------------------------------------- messages
\* A JSON scalar is a pair <<kind, number>>: an integer, a boolean (true is 1 and
\* false is 0, as Python compares them: True == 1) or a string.
JInt(n) == << "int", n >>
JTrue == << "bool", 1 >>
JFalse == << "bool", 0 >>
JStr == << "str", 0 >>

\* Python's v in (-1, 0, 1) and v != 0 on a parsed JSON scalar
InUnit(v) == v[1] \in {"int", "bool"} /\ v[2] \in {-1, 0, 1}
NonZero(v) == v[1] = "str" \/ v[2] # 0

Dirs == { d \in {-1, 0, 1} \X {-1, 0, 1} : d # << 0, 0 >> }
JList(items) == [ islist |-> TRUE, items |-> items ]
NotAList == [ islist |-> FALSE, items |-> << >> ]

\* the "dir" values sent: the eight directions and some that are not directions
DirInputs ==
    { JList(<< JInt(d[1]), JInt(d[2]) >>) : d \in Dirs }
    \cup { JList(<< JInt(0), JInt(0) >>),
           JList(<< JInt(1), JInt(0), JInt(0) >>),
           JList(<< JInt(2), JInt(0) >>),
           JList(<< JStr, JInt(1) >>),
           JList(<< JTrue, JFalse >>),
           NotAList }

PyStr(chars) == [ isstr |-> TRUE, chars |-> chars ]
NotAStr == [ isstr |-> FALSE, chars |-> << >> ]

\* the "name" values sent
NameInputs ==
    { NotAStr, PyStr(<< >>), PyStr(<< " " >>), PyStr(<< " ", "x", " " >>), PyStr(<< "x" >>) }

\* str.strip()
RECURSIVE LStrip(_)
LStrip(s) == IF s # << >> /\ Head(s) = " " THEN LStrip(Tail(s)) ELSE s
RECURSIVE RStrip(_)
RStrip(s) == IF s # << >> /\ s[Len(s)] = " " THEN RStrip(SubSeq(s, 1, Len(s) - 1)) ELSE s
Strip(s) == RStrip(LStrip(s))
\* s[:n]
Prefix(s, n) == IF Len(s) > n THEN SubSeq(s, 1, n) ELSE s

\* the texts received: not JSON; JSON that is no object (array, number, string,
\* null); an object with a "type"
Messages ==
    { [ json |-> "invalid", type |-> "", dir |-> NotAList, name |-> NotAStr ],
      [ json |-> "nonobject", type |-> "", dir |-> NotAList, name |-> NotAStr ],
      [ json |-> "object", type |-> "respawn", dir |-> NotAList, name |-> NotAStr ],
      [ json |-> "object", type |-> "ping", dir |-> NotAList, name |-> NotAStr ] }
    \cup { [ json |-> "object", type |-> "input", dir |-> d, name |-> NotAStr ] : d \in DirInputs }
    \cup { [ json |-> "object", type |-> "rename", dir |-> NotAList, name |-> n ] : n \in NameInputs }

\* ------------------------------------------------------ connection manager
\* server.py:42-45
disconnect(ac, player_id) == DictDel(ac, player_id)

\* ---------------------------------------------------------------- handler
\* the labels when there is an await between the respawn's remove_player and
\* its add_player
AwaitPointsInRespawn ==
    { "idle", "send_init", "send_state", "send_note", "recv", "closed", "failed", "respawn_add" }

\* The labels at which a coroutine is suspended (server.py:479 accept, 492 and
\* 505 and 552 send_to, 514 receive_text, and the return of the handler).  At any
\* other label the coroutine keeps the thread: nothing else runs.
AwaitPoints == { "idle", "send_init", "send_state", "send_note", "recv", "closed", "failed" }

Thread(ws, label) == IF label \in AwaitPoints THEN NoSocket ELSE ws

At(ws, label) == conn[ws].pc = label
Goto(ws, label) ==
    /\ conn' = [ conn EXCEPT ![ws].pc = label ]
    /\ running' = Thread(ws, label)

\* server.py:525-535: the input message
HandleInput(g, player_id, direction) ==
    IF /\ direction.islist
       /\ Len(direction.items) = 2
       /\ player_id \in DOMAIN g.players
       /\ g.players[player_id].alive
    THEN LET dx == direction.items[1]
             dy == direction.items[2]
         IN IF InUnit(dx) /\ InUnit(dy) /\ (NonZero(dx) \/ NonZero(dy))
            THEN [ g EXCEPT !.players[player_id].pending_dir = << dx[2], dy[2] >> ]
            ELSE g
    ELSE g

\* server.py:539-540: the respawn message is taken
RespawnTaken(g, player_id) ==
    player_id \in DOMAIN g.players /\ ~ g.players[player_id].alive

\* server.py:547-551: the rename message
RenameTaken(g, player_id, new_name) ==
    /\ player_id \in DOMAIN g.players
    /\ new_name.isstr
    /\ new_name.chars # << >>
    /\ Len(Strip(new_name.chars)) > 0

HandleRename(g, player_id, new_name) ==
    [ g EXCEPT !.players[player_id].display_name = Prefix(Strip(new_name.chars), 20) ]

\* server.py:565-568: the finally block
Cleanup(ws, label) ==
    /\ SetGame(remove_player(Game, conn[ws].pid))
    /\ active_connections' = disconnect(active_connections, conn[ws].pid)
    /\ conn' = [ conn EXCEPT ![ws] = [ pc |-> label, pid |-> NoId, was |-> NoId ] ]
    /\ running' = Thread(ws, label)
    /\ UNCHANGED << hung, loop >>

\* the thread is free for another coroutine; the explored runs end at MaxTick
Live == ~ hung /\ tick < MaxTick
Free == Live /\ running = NoSocket

\* server.py:476-502: the connection is accepted and registered, the player is
\* added, the init message is on its way
Connect(ws, player_id, unlucky) ==
    /\ Free
    /\ At(ws, "idle")
    /\ active_connections' = DictSet(active_connections, player_id, ws)
    /\ \E g \in add_player(Game, player_id, player_id, unlucky) : SetGame(g)
    /\ conn' = [ conn EXCEPT ![ws] = [ pc |-> "send_init", pid |-> player_id, was |-> NoId ] ]
    /\ running' = Thread(ws, "send_init")
    /\ UNCHANGED << hung, loop >>

\* server.py:47-53 and 492-508 and 552: a send_to returns; when it has failed the
\* identity is unregistered.  After the init message comes the state message.
SendDone(ws, ok) ==
    /\ Free
    /\ conn[ws].pc \in { "send_init", "send_state", "send_note" }
    /\ LET ac == IF ok THEN active_connections
                 ELSE disconnect(active_connections, conn[ws].pid)
       IN /\ active_connections' = ac
          /\ Goto(ws, IF At(ws, "send_init") /\ conn[ws].pid \in DOMAIN ac
                      THEN "send_state" ELSE "recv")
    /\ UNCHANGED << gvars, hung, loop, fallback_used >>

\* server.py:514-520: a text that is not JSON
ReceiveInvalid(ws, m) ==
    /\ m.json = "invalid"
    /\ UNCHANGED vars

\* server.py:523 and 557-568: message.get on a value that is no dict raises,
\* the loop is left and the finally block runs
ReceiveNonObject(ws, m) ==
    /\ m.json = "nonobject"
    /\ Cleanup(ws, "failed")

\* server.py:525-535
ReceiveInput(ws, m) ==
    /\ m.json = "object" /\ m.type = "input"
    /\ SetGame(HandleInput(Game, conn[ws].pid, m.dir))
    /\ UNCHANGED << active_connections, conn, running, hung, loop >>

\* server.py:537-542: respawn, up to remove_player
ReceiveRespawn(ws, m) ==
    /\ m.json = "object" /\ m.type = "respawn"
    /\ IF RespawnTaken(Game, conn[ws].pid)
       THEN /\ SetGame(remove_player(Game, conn[ws].pid))
            /\ conn' = [ conn EXCEPT ![ws].pc = "respawn_add",
                                     ![ws].was = players[conn[ws].pid].display_name ]
            /\ running' = Thread(ws, "respawn_add")
       ELSE UNCHANGED << gvars, fallback_used, conn, running >>
    /\ UNCHANGED << active_connections, hung, loop >>

\* server.py:545-555: rename; the notification is sent when the identity is registered
ReceiveRename(ws, m) ==
    /\ m.json = "object" /\ m.type = "rename"
    /\ IF RenameTaken(Game, conn[ws].pid, m.name)
       THEN /\ SetGame(HandleRename(Game, conn[ws].pid, m.name))
            /\ Goto(ws, IF conn[ws].pid \in DOMAIN active_connections
                        THEN "send_note" ELSE "recv")
       ELSE UNCHANGED << gvars, fallback_used, conn, running >>
    /\ UNCHANGED << active_connections, hung, loop >>

\* server.py:523-545: a type that is none of the three
ReceiveOther(ws, m) ==
    /\ m.json = "object" /\ m.type \notin { "input", "respawn", "rename" }
    /\ UNCHANGED vars

\* server.py:511-559: one message is received and handled
Receive(ws, m) ==
    /\ Free
    /\ At(ws, "recv")
    /\ \/ ReceiveInvalid(ws, m)
       \/ ReceiveNonObject(ws, m)
       \/ ReceiveInput(ws, m)
       \/ ReceiveRespawn(ws, m)
       \/ ReceiveRename(ws, m)
       \/ ReceiveOther(ws, m)

\* server.py:543: respawn, the add_player after the remove_player
RespawnAdd(ws, unlucky) ==
    /\ Live
    /\ running \in { NoSocket, ws }
    /\ At(ws, "respawn_add")
    /\ \E g \in add_player(Game, conn[ws].pid, conn[ws].pid, unlucky) : SetGame(g)
    /\ conn' = [ conn EXCEPT ![ws].pc = "recv", ![ws].was = NoId ]
    /\ running' = Thread(ws, "recv")
    /\ UNCHANGED << active_connections, hung, loop >>

\* server.py:514 and 561-568: the peer has closed, receive_text raises
\* WebSocketDisconnect and the finally block runs
Close(ws) ==
    /\ Free
    /\ At(ws, "recv")
    /\ Cleanup(ws, "closed")

\* server.py:380-389 and 55-67: one iteration of game_loop: step() returns and
\* the broadcast, when there is somebody to send to, returns with no send
\* suspended and none failed
Step ==
    /\ Free
    /\ loop.pc = "sleep"
    /\ \E g \in step(Game) : g.tick = tick + 1 /\ SetGame(g)
    /\ UNCHANGED << active_connections, conn, running, hung, loop >>

\* server.py:106-114: step() is in spawn_food with no free cell left: the loop
\* never ends and the thread never returns to the event loop
StepDiverges ==
    /\ Free
    /\ loop.pc = "sleep"
    /\ \E g \in step(Game) : g.tick = tick /\ SetGame(g)
    /\ hung' = TRUE
    /\ UNCHANGED << active_connections, conn, running, loop >>

\* server.py:55-67: the (player_id, websocket) pairs of list(active_connections.items())
items(ac) == { << p, ac[p] >> : p \in DOMAIN ac }

NoPair == << >>

\* game_loop in asyncio.sleep before its first broadcast
LoopAsleep ==
    [ pc |-> "sleep", started |-> {}, todo |-> {}, cur |-> NoPair, tried |-> {}, to_remove |-> {} ]

\* server.py:59-64: broadcast() starts: the copy of the registry is taken and the
\* first send_json is awaited.  The order of the registry is not kept in the
\* state; the sweep takes the pairs of the copy in any order.
StartSweep(ac) ==
    { [ pc |-> "sweep", started |-> items(ac), todo |-> items(ac) \ {c}, cur |-> c,
        tried |-> {c}, to_remove |-> {} ] : c \in items(ac) }

\* server.py:65-67: the disconnect of every player_id in to_remove
RECURSIVE DisconnectAll(_, _)
DisconnectAll(ac, ids) ==
    IF ids = {} THEN ac
    ELSE LET p == CHOOSE q \in ids : TRUE
         IN DisconnectAll(disconnect(ac, p), ids \ {p})

\* server.py:380-386 and 55-61: step() returns and, when the registry is not
\* empty, broadcast() is called and is suspended in its first send_json
StepSweep ==
    /\ Free
    /\ loop.pc = "sleep"
    /\ \E g \in step(Game) : g.tick = tick + 1 /\ SetGame(g)
    /\ IF active_connections = << >>
       THEN loop' = loop
       ELSE loop' \in StartSweep(active_connections)
    /\ UNCHANGED << active_connections, conn, running, hung >>

\* a send_json on a websocket whose handler has returned raises
CanDeliver(ws) == conn[ws].pc \notin { "closed", "failed" }

\* a sweep that gives up at the first send that fails
SweepSendAborting(ok) ==
    /\ ~ hung /\ running = NoSocket
    /\ loop.pc = "sweep"
    /\ ok => CanDeliver(loop.cur[2])
    /\ LET failed == IF ok THEN loop.to_remove ELSE loop.to_remove \cup { loop.cur[1] }
       IN IF loop.todo = {} \/ ~ ok
          THEN /\ active_connections' = DisconnectAll(active_connections, failed)
               /\ loop' = [ loop EXCEPT !.pc = "sleep", !.to_remove = failed ]
          ELSE /\ \E c \in loop.todo :
                     loop' = [ loop EXCEPT !.cur = c, !.todo = @ \ {c},
                                           !.tried = @ \cup {c}, !.to_remove = failed ]
               /\ UNCHANGED active_connections
    /\ UNCHANGED << gvars, fallback_used, conn, running, hung >>

\* server.py:59-67: the send_json awaited by broadcast() returns (ok) or raises;
\* the next send_json is awaited or, after the last one, every player_id whose
\* send has raised is disconnected and game_loop goes to sleep
SweepSend(ok) ==
    /\ ~ hung /\ running = NoSocket
    /\ loop.pc = "sweep"
    /\ ok => CanDeliver(loop.cur[2])
    /\ LET failed == IF ok THEN loop.to_remove ELSE loop.to_remove \cup { loop.cur[1] }
       IN IF loop.todo = {}
          THEN /\ active_connections' = DisconnectAll(active_connections, failed)
               /\ loop' = [ loop EXCEPT !.pc = "sleep", !.to_remove = failed ]
          ELSE /\ \E c \in loop.todo :
                     loop' = [ loop EXCEPT !.cur = c, !.todo = @ \ {c},
                                           !.tried = @ \cup {c}, !.to_remove = failed ]
               /\ UNCHANGED active_connections
    /\ UNCHANGED << gvars, fallback_used, conn, running, hung >>

\* server.py:96-101, 33, 408: the state when the server starts to serve, after
\* the lifespan's spawn_food
Init ==
    /\ players = << >>
    /\ porder = << >>
    /\ tick = 0
    /\ death_reasons = << >>
    /\ \E o \in spawn_food(<< >>, {}) : o.done /\ food = o.food /\ occupied = o.occupied
    /\ active_connections = << >>
    /\ conn = [ ws \in AllSockets |-> [ pc |-> "idle", pid |-> NoId, was |-> NoId ] ]
    /\ running = NoSocket
    /\ hung = FALSE
    /\ loop = LoopAsleep
    /\ fallback_used = FALSE

\* ------------------------------------------------------- specifications
IsDir(j) ==
    /\ j.islist /\ Len(j.items) = 2
    /\ j.items[1][1] = "int" /\ j.items[2][1] = "int"
    /\ << j.items[1][2], j.items[2][2] >> \in Dirs
DirOf(j) == << j.items[1][2], j.items[2][2] >>

\* Spec: two connections, as "a" and as "a" or "b", every outcome of the
\* lifespan's spawn_food.  The messages: of the eight directions down and left
\* (left reverses the direction of a new snake), every "dir" that is no
\* direction, respawn, an unknown type, a text that is not JSON, JSON that is no
\* object.  The sends succeed and add_player finds a valid anchor when there is one.
IdsOf(ws) == IF ws = 1 THEN { << "a" >> } ELSE { << "a" >>, << "b" >> }
GameDirs == { << 0, 1 >>, << -1, 0 >> }
GameMessages ==
    { m \in Messages : m.type # "rename" /\ (IsDir(m.dir) => DirOf(m.dir) \in GameDirs) }

Next ==
    \/ \E ws \in Sockets, player_id \in PlayerIds :
          player_id \in IdsOf(ws) /\ Connect(ws, player_id, FALSE)
    \/ \E ws \in Sockets : SendDone(ws, TRUE)
    \/ \E ws \in Sockets, m \in GameMessages : Receive(ws, m)
    \/ \E ws \in Sockets : RespawnAdd(ws, FALSE)
    \/ \E ws \in Sockets : Close(ws)
    \/ Step
    \/ StepDiverges

Spec == Init /\ [][Next]_vars

\* the game states after the identities ids have connected, one after the
\* other, each spawned at a valid anchor
RECURSIVE Seated(_, _)
Seated(g, ids) ==
    IF ids = << >> THEN { g }
    ELSE UNION { Seated(h, Tail(ids)) :
                   h \in { k \in add_player(g, Head(ids), Head(ids), FALSE) : ~ k.fallback } }

\* the state when the websockets 1 .. Len(ids) have connected as ids and have
\* sent their first two messages, from the initial food fd
InitSeated(fd, ids) ==
    /\ tick = 0
    /\ death_reasons = << >>
    /\ fallback_used = FALSE
    /\ \E g \in Seated([ players |-> << >>, porder |-> << >>, food |-> fd,
                         occupied |-> Range(fd), tick |-> 0, death_reasons |-> << >>,
                         fallback |-> FALSE ], ids) :
          /\ players = g.players
          /\ porder = g.porder
          /\ food = g.food
          /\ occupied = g.occupied
    /\ active_connections = [ p \in Range(ids) |-> CHOOSE ws \in 1 .. Len(ids) : ids[ws] = p ]
    /\ conn = [ ws \in AllSockets |->
                  IF ws <= Len(ids) THEN [ pc |-> "recv", pid |-> ids[ws], was |-> NoId ]
                  ELSE [ pc |-> "idle", pid |-> NoId, was |-> NoId ] ]
    /\ running = NoSocket
    /\ hung = FALSE
    /\ loop = LoopAsleep

\* SpecNames: "a" and "b" are connected; the messages of Spec without the
\* direction left, and the rename messages; a send may fail.
InitNames ==
    \E o \in spawn_food(<< >>, {}) :
        o.food[1] = << 0, 0 >> /\ InitSeated(o.food, << << "a" >>, << "b" >> >>)
NameMessages ==
    { m \in Messages : IsDir(m.dir) => DirOf(m.dir) = << 0, 1 >> }

NextNames ==
    \/ \E ws \in Sockets, ok \in BOOLEAN : SendDone(ws, ok)
    \/ \E ws \in Sockets, m \in NameMessages : Receive(ws, m)
    \/ \E ws \in Sockets : RespawnAdd(ws, FALSE)
    \/ \E ws \in Sockets : Close(ws)
    \/ Step
    \/ StepDiverges

SpecNames == InitNames /\ [][NextNames]_vars

\* SpecHeads: "a", "b" and "c" are connected and stay; the messages are the two
\* diagonals to the right.
InitHeads ==
    \E o \in spawn_food(<< >>, {}) :
        InitSeated(o.food, << << "a" >>, << "b" >>, << "c" >> >>)
HeadsDirs == { << 1, 1 >>, << 1, -1 >> }
HeadsMessages ==
    { m \in Messages : m.type = "input" /\ IsDir(m.dir) /\ DirOf(m.dir) \in HeadsDirs }

NextHeads ==
    \/ \E ws \in AllSockets, m \in HeadsMessages : Receive(ws, m)
    \/ Step
    \/ StepDiverges

SpecHeads == InitHeads /\ [][NextHeads]_vars

\* SpecCrowded: one connection, as "a", and no messages; add_player may miss
\* the valid anchors in all its attempts and take the fallback spawn.
NextCrowded ==
    \/ \E unlucky \in BOOLEAN : Connect(1, << "a" >>, unlucky)
    \/ \E ok \in BOOLEAN : SendDone(1, ok)
    \/ Close(1)
    \/ Step

SpecCrowded == Init /\ [][NextCrowded]_vars

\* SpecSweep: "a" and "b" are connected and send nothing; each send_json of a
\* broadcast is suspended and returns or raises; during a sweep a third
\* websocket can connect, again as "a", and any connection can be closed.
InitSweep ==
    \E o \in spawn_food(<< >>, {}) :
        o.food[1] = << 0, 0 >> /\ InitSeated(o.food, << << "a" >>, << "b" >> >>)

NextSweep ==
    \/ StepSweep
    \/ \E ok \in BOOLEAN : SweepSend(ok)
    \/ Connect(3, << "a" >>, FALSE)
    \/ \E ws \in AllSockets : SendDone(ws, TRUE)
    \/ \E ws \in AllSockets : Close(ws)

SpecSweep == InitSweep /\ [][NextSweep]_vars

\* SpecStall: "a" and "b" are connected, in the rows 0 and 1, the food is in
\* row 2; they send nothing, a connection can be closed.
InitStall ==
    /\ InitSeated(<< << 0, 2 >>, << 1, 2 >> >>, << << "a" >>, << "b" >> >>)
    /\ \A ws \in 1 .. 2 : players[conn[ws].pid].body[1][2] = ws - 1

NextStall ==
    \/ StepSweep
    \/ \E ok \in BOOLEAN : SweepSend(ok)
    \/ \E ws \in AllSockets : Close(ws)

\* the send_json that broadcast() awaits, to the websocket ws, returns or raises
SweepSendTo(ws) == \E ok \in BOOLEAN : SweepSend(ok) /\ loop.cur[2] = ws

\* weak fairness of StepSweep, with its enabling condition written out:
\* game_loop is not left asleep for ever with the thread free
LoopRuns ==
    \/ []<>(~ (Free /\ loop.pc = "sleep"))
    \/ []<><< StepSweep >>_vars

\* SpecStallFair: game_loop runs whenever it can and every send_json of a
\* broadcast returns or raises in the end, except those to websocket 1, whose
\* peer may never take the data.
SpecStallFair ==
    /\ InitStall
    /\ [][NextStall]_vars
    /\ LoopRuns
    /\ \A ws \in AllSockets \ {1} : WF_vars(SweepSendTo(ws))

\* ----------------------------------------------------------------- claims
BodyCells(pl, p) == Range(pl[p].body)
AliveCells(pl) == UNION { BodyCells(pl, p) : p \in AliveIds(pl) }

BodiesDisjoint ==
    \A p, q \in AliveIds(players) :
        p # q => BodyCells(players, p) \cap BodyCells(players, q) = {}

\* C1: in a run that never takes the fallback spawn, after each completed tick
\* no cell belongs to the bodies of two distinct alive players.
C1_DisjointAfterTick ==
    [][ (tick' = tick + 1 /\ ~ fallback_used') => BodiesDisjoint' ]_vars

\* C3: whenever step() has completed (and from the initial spawn_food on), the
\* food list holds exactly FOOD_COUNT cells.
C3_FoodCount == ~ hung => Len(food) = FOOD_COUNT

\* C6: after every add_player, remove_player, respawn and completed step() the
\* occupied set is exactly the cells of the alive players' bodies and the food.
C6_OccupiedIsUnion ==
    ~ hung => occupied = AliveCells(players) \cup Range(food)

\* C7: in a run that never takes the fallback spawn, every food cell that
\* spawn_food places during a tick is, when it is placed and the grid has a free
\* cell, no body cell of an alive player and not already a food cell.
C7_FoodOnFreeCell ==
    [][ (tick' = tick + 1 /\ ~ fallback_used) =>
          LET kept == Len(StepMoves(Game, porder).food)
          IN \A i \in (kept + 1) .. Len(food') :
                LET taken == AliveCells(players') \cup { food'[j] : j \in 1 .. (i - 1) }
                IN taken # Cells => food'[i] \notin taken ]_vars

\* C2: step() never runs while a respawn is between its remove_player and its
\* add_player, and from such a state the only change of the game state is that
\* respawn's own add_player.
C2_StepNotInsideHandler ==
    [][ \A ws \in AllSockets :
            At(ws, "respawn_add") =>
                /\ tick' = tick /\ hung' = hung
                /\ gvars' # gvars => conn'[ws].pc = "recv" ]_vars

\* a respawn has removed its player and has not added it again
C2_Witness ==
    \E ws \in AllSockets :
        /\ At(ws, "respawn_add")
        /\ conn[ws].pid \notin DOMAIN players
        /\ AliveIds(players) # {}

\* a tick in which a player has eaten has completed
C3_Witness ==
    /\ tick >= 1
    /\ ~ hung
    /\ Len(food) = FOOD_COUNT
    /\ \E p \in DOMAIN players : players[p].alive /\ players[p].food_collected >= 1

\* the alive players whose projected head is also the projected head of another
\* alive player
Colliding(pl) ==
    LET nh == new_heads(FirstPass(pl))
    IN { p \in DOMAIN nh : \E q \in DOMAIN nh : q # p /\ nh[q] = nh[p] }

\* C4: in a tick where two or more alive players project the same new head cell,
\* each of them is not alive after the tick, has the death cause
\* "head_collision" and has the body it had before the tick.
C4_HeadCollision ==
    [][ tick' = tick + 1 =>
          \A p \in Colliding(players) :
              /\ ~ players'[p].alive
              /\ p \in DOMAIN death_reasons'
              /\ death_reasons'[p] = "head_collision"
              /\ players'[p].body = players[p].body ]_vars

\* three players have projected the same cell in one tick
C4_Witness ==
    /\ tick >= 1
    /\ \A p \in PlayerIds :
          /\ p \in DOMAIN players
          /\ ~ players[p].alive
          /\ p \in DOMAIN death_reasons
          /\ death_reasons[p] = "head_collision"

\* the number of entries of the list s that are x
Count(s, x) == Cardinality({ i \in 1 .. Len(s) : s[i] = x })

\* the alive players whose projected head is a food cell
Eating(pl, fd) ==
    LET nh == new_heads(FirstPass(pl))
    IN { p \in DOMAIN nh : nh[p] \in Range(fd) }

\* C5: in a tick where an alive player's projected head is a food cell and the
\* player does not die, its score and its food_collected grow by 1, its body is
\* the new head followed by the whole old body, one entry of the eaten cell is
\* taken from the food list before the list is replenished, and the list has
\* FOOD_COUNT entries when the tick ends.
C5_EatGrows ==
    [][ tick' = tick + 1 =>
          \A p \in Eating(players, food) :
              players'[p].alive =>
                  LET new_head == new_heads(FirstPass(players))[p]
                  IN /\ players'[p].score = players[p].score + 1
                     /\ players'[p].food_collected = players[p].food_collected + 1
                     /\ players'[p].body = << new_head >> \o players[p].body
                     /\ Count(StepMoves(Game, porder).food, new_head) = Count(food, new_head) - 1
                     /\ Len(food') = FOOD_COUNT ]_vars

\* a player has eaten twice and lives
C5_Witness ==
    \E p \in DOMAIN players :
        /\ players[p].alive
        /\ players[p].score = 2
        /\ players[p].food_collected = 2
        /\ Len(players[p].body) = START_LENGTH + 2

\* the messages C8 calls malformed or unrecognized
Malformed(m) ==
    \/ m.json # "object"
    \/ m.type \notin { "input", "respawn", "rename" }
    \/ m.type = "input" /\ ~ IsDir(m.dir)
    \/ m.type = "rename" /\ ~ m.name.isstr

\* C8: after a malformed or unrecognized message the handler receives the next
\* message, the players are the same and so are the registered sessions.
C8_ConnectionStays ==
    [][ \A ws \in AllSockets, m \in Messages :
            (Malformed(m) /\ Receive(ws, m)) =>
                /\ conn'[ws].pc = "recv"
                /\ DOMAIN players' = DOMAIN players
                /\ active_connections' = active_connections ]_vars

\* the messages C9 calls rejected, from the websocket ws
Rejected(ws, m) ==
    /\ m.json = "object"
    /\ \/ /\ m.type = "input"
          /\ \/ conn[ws].pid \notin AliveIds(players)
             \/ ~ IsDir(m.dir)
       \/ /\ m.type = "respawn"
          /\ conn[ws].pid \in AliveIds(players)

\* C9: a rejected message leaves the game state as it was.
C9_RejectedNoEffect ==
    [][ \A ws \in AllSockets, m \in Messages :
            (Rejected(ws, m) /\ Receive(ws, m)) => UNCHANGED gvars ]_vars

\* C10: when a respawn has added its player again, the player is alive, has the
\* display name it had before the respawn, score 0, START_LENGTH body cells, no
\* death cause, and the current tick as its spawn tick.
C10_RespawnKeepsName ==
    [][ \A ws \in AllSockets :
            (At(ws, "respawn_add") /\ conn'[ws].pc = "recv") =>
                LET p == conn[ws].pid
                IN /\ p \in DOMAIN players'
                   /\ players'[p].alive
                   /\ players'[p].display_name = conn[ws].was
                   /\ players'[p].score = 0
                   /\ Len(players'[p].body) = START_LENGTH
                   /\ p \notin DOMAIN death_reasons'
                   /\ players'[p].spawn_tick = tick' ]_vars

\* C14: step() always returns: it is never inside spawn_food with no cell left
\* that spawn_food accepts.
C14_StepTerminates == ~ hung

\* the last cell of the body of player p
TailOf(pl, p) == pl[p].body[Len(pl[p].body)]

\* the alive players whose projected head is their own tail cell, with no
\* other projected head on that cell
OntoOwnTail(pl) ==
    LET nh == new_heads(FirstPass(pl))
    IN { p \in DOMAIN nh : /\ nh[p] = TailOf(pl, p)
                           /\ \A q \in DOMAIN nh : q # p => nh[q] # nh[p] }

\* no cell is twice in the list s
NoRepeat(s) == Cardinality(Range(s)) = Len(s)

\* C15: an alive player whose projected head is its own tail cell, with no
\* food, no other alive body and no other projected head on that cell, is alive
\* after the tick and has moved: the new head in front, the old tail dropped, no
\* cell twice in the body.
C15_TailVacated ==
    [][ tick' = tick + 1 =>
          \A p \in OntoOwnTail(players) :
              LET body == players[p].body
                  tail == TailOf(players, p)
              IN ( /\ tail \notin Range(food)
                   /\ \A q \in AliveIds(players) : q # p => tail \notin BodyCells(players, q) )
                 => /\ players'[p].alive
                    /\ players'[p].body = << tail >> \o SubSeq(body, 1, Len(body) - 1)
                    /\ NoRepeat(players'[p].body) ]_vars

\* the only connection ever made is that of "a", which has spawned before the
\* first tick, has eaten in the first tick going right and has moved in the
\* second tick onto the cell its tail has left: its body is a whole row
C15_Witness ==
    /\ tick = 2
    /\ \A ws \in AllSockets : ws # 1 => At(ws, "idle")
    /\ << "a" >> \in DOMAIN players
    /\ LET a == players[<< "a" >>]
       IN /\ a.alive
          /\ a.spawn_tick = 0
          /\ a.score = 1
          /\ Len(a.body) = 3
          /\ NoRepeat(a.body)
          /\ \A i \in 1 .. 2 : a.body[i] = clamp_pos(a.body[i + 1][1] + 1, a.body[i + 1][2])

\* C16: an alive player whose projected head is its own tail cell and a food
\* cell that it consumes is dead after the tick, with the death cause "self",
\* and its body is the one it had.
C16_GrowingOntoTailDies ==
    [][ tick' = tick + 1 =>
          \A p \in OntoOwnTail(players) :
              TailOf(players, p) \in Range(food) =>
                  /\ ~ players'[p].alive
                  /\ p \in DOMAIN death_reasons'
                  /\ death_reasons'[p] = "self"
                  /\ players'[p].body = players[p].body ]_vars

\* the orders in which a dict with the keys of ord can be iterated
Orders(ord) ==
    { o \in [ 1 .. Len(ord) -> Range(ord) ] : Range(o) = Range(ord) }

\* what C17 compares of a tick's result: per player the alive flag, the body,
\* the score and food_collected, and the death causes and the food left
Outcome(g) ==
    [ players |-> [ p \in DOMAIN g.players |->
                      [ alive |-> g.players[p].alive,
                        body |-> g.players[p].body,
                        score |-> g.players[p].score,
                        food_collected |-> g.players[p].food_collected ] ],
      death_reasons |-> g.death_reasons,
      food |-> g.food ]

\* C17: from every state, step() up to the replenishment gives the same alive
\* flags, death causes, bodies, scores, food_collected counters and consumed
\* food whatever the order in which it iterates the players.
C17_OrderIndependent ==
    \A o \in Orders(porder) :
        Outcome(StepMoves(Game, o)) = Outcome(StepMoves(Game, porder))

\* C18: every player's food_collected equals its score.
C18_CollectedIsScore ==
    \A p \in DOMAIN players : players[p].food_collected = players[p].score

\* C19: every player's body has START_LENGTH + score cells.
C19_LengthIsScore ==
    \A p \in DOMAIN players : Len(players[p].body) = START_LENGTH + players[p].score

\* a dead player and an alive player that have both eaten
C19_Witness ==
    \E p, q \in DOMAIN players :
        /\ players[p].alive /\ players[p].score >= 1
        /\ ~ players[q].alive /\ players[q].score >= 1

\* C11: with the send to one websocket never returning, game_loop still goes
\* on: the tick counter reaches every value up to the horizon.
C11_TicksGoOn == <>(tick = MaxTick)

\* C12: while a broadcast sweep is under way the registry is changed by
\* nothing but the removals the sweep itself makes at its end.
C12_RegistryFixedInSweep ==
    [][ (loop.pc = "sweep" /\ active_connections' # active_connections)
            => loop'.pc = "sleep" ]_vars

\* C13: when a sweep ends, a send has been attempted to every pair that was
\* registered when it started, and no player_id whose send has raised is
\* registered.
C13_SweepReachesAll ==
    [][ (loop.pc = "sweep" /\ loop'.pc = "sleep") =>
            /\ loop'.tried = loop'.started
            /\ \A p \in loop'.to_remove : p \notin DOMAIN active_connections' ]_vars

\* a sweep over two websockets has ended; a send has raised and, after it, a
\* send has returned
C13_Witness ==
    /\ loop.pc = "sleep"
    /\ Cardinality(loop.started) = 2
    /\ loop.tried = loop.started
    /\ loop.to_remove # {}
    /\ loop.cur[1] \notin loop.to_remove
    /\ DOMAIN active_connections = { c[1] : c \in loop.started } \ loop.to_remove

\* C20: when a connection is closed while another open connection is
\* registered under the same player_id, the other connection's registration
\* and its player stay.
C20_NewerConnectionStays ==
    [][ \A ws, other \in AllSockets :
            ( /\ ws # other
              /\ At(ws, "recv") /\ conn'[ws].pc = "closed"
              /\ At(other, "recv")
              /\ conn[other].pid = conn[ws].pid
              /\ conn[other].pid \in DOMAIN active_connections
              /\ active_connections[conn[other].pid] = other
              /\ conn[other].pid \in DOMAIN players )
            => /\ conn[other].pid \in DOMAIN active_connections'
               /\ active_connections'[conn[other].pid] = other
               /\ conn[other].pid \in DOMAIN players' ]_vars

\* C21: when a sweep ends, a websocket that was registered under its player_id
\* after the sweep had started (it is no pair of the sweep, so no send to it has
\* raised) is still registered under that player_id.
C21_OnlyFailedChannelRemoved ==
    [][ (loop.pc = "sweep" /\ loop'.pc = "sleep") =>
            \A p \in DOMAIN active_connections :
                << p, active_connections[p] >> \notin loop.started =>
                    /\ p \in DOMAIN active_connections'
                    /\ active_connections'[p] = active_connections[p] ]_vars

====
